---- MODULE Spec2Model ----
(***************************************************************************)
(* The mortgage calculator of src/src/App.jsx as a state machine.          *)
(*                                                                         *)
(* JavaScript numbers are IEEE-754 binary64 values.  They are modelled     *)
(* bit for bit: a finite number is sign * m * 2^e with a significand m of   *)
(* at most 53 bits, with subnormals, both zeros, overflow to Infinity and  *)
(* NaN, and +, -, *, / round to nearest, ties to even, as the hardware     *)
(* does.  Significands are held as little-endian sequences of limbs        *)
(* because the model checker's integers are 32 bits wide.                  *)
(*                                                                         *)
(* Math.pow is the one operation whose result the language leaves to the   *)
(* implementation: for each pair of arguments the engine returns one of    *)
(* the two doubles around an inexact power, and the same one whenever the  *)
(* pair comes again.  The variable mathPow holds what Math.pow has         *)
(* returned so far.                                                        *)
(***************************************************************************)
EXTENDS Integers, Sequences, FiniteSets, TLC

(***************************************************************************)
(* Naturals of any size                                                    *)
(***************************************************************************)
LimbBits == 10
LimbBase == 2^LimbBits

Max(a, b) == IF a >= b THEN a ELSE b
Min(a, b) == IF a <= b THEN a ELSE b

RECURSIVE BNorm(_)
BNorm(a) ==
  IF a = <<>> THEN <<>>
  ELSE IF a[Len(a)] = 0 THEN BNorm(SubSeq(a, 1, Len(a) - 1)) ELSE a

\* The limbs of the number whose columns (possibly over-full or negative) are
\* v: every pass moves each column's excess one column up.
RECURSIVE Carry(_)
Carry(v) ==
  IF \A i \in 1..Len(v) : v[i] >= 0 /\ v[i] < LimbBase THEN v
  ELSE LET n == IF v[Len(v)] \div LimbBase = 0 THEN Len(v) ELSE Len(v) + 1
           w == [i \in 1..n |-> (IF i <= Len(v) THEN v[i] % LimbBase ELSE 0)
                                + (IF i > 1 THEN v[i - 1] \div LimbBase ELSE 0)]
       IN  IF Len(w) >= 0 THEN Carry(w) ELSE w

Limb(a, i) == IF i >= 1 /\ i <= Len(a) THEN a[i] ELSE 0

BAdd(a, b) == BNorm(Carry([i \in 1..Max(Len(a), Len(b)) |-> Limb(a, i) + Limb(b, i)]))

\* a - b, for a >= b
BSub(a, b) == BNorm(Carry([i \in 1..Len(a) |-> a[i] - Limb(b, i)]))

\* Column k of the product of a and b: the sum of a[i] * b[k - i + 1] over
\* i in lo..hi
RECURSIVE ConvSum(_, _, _, _, _)
ConvSum(a, b, k, lo, hi) ==
  IF lo > hi THEN 0
  ELSE IF lo = hi THEN a[lo] * b[k - lo + 1]
  ELSE LET mid == (lo + hi) \div 2
       IN  ConvSum(a, b, k, lo, mid) + ConvSum(a, b, k, mid + 1, hi)

BMul(a, b) ==
  IF a = <<>> \/ b = <<>> THEN <<>>
  ELSE BNorm(Carry([k \in 1..(Len(a) + Len(b) - 1) |->
                      ConvSum(a, b, k, Max(1, k + 1 - Len(b)), Min(k, Len(a)))]))

\* a * c for a small c (c < 2^20)
BScale(a, c) == BNorm(Carry([i \in 1..Len(a) |-> a[i] * c]))

RECURSIVE BCmpFrom(_, _, _)
BCmpFrom(a, b, i) ==
  IF i = 0 THEN 0
  ELSE IF a[i] > b[i] THEN 1
  ELSE IF a[i] < b[i] THEN -1
  ELSE BCmpFrom(a, b, i - 1)

\* -1, 0, 1 as a < b, a = b, a > b
BCmp(a, b) ==
  IF Len(a) > Len(b) THEN 1
  ELSE IF Len(a) < Len(b) THEN -1
  ELSE BCmpFrom(a, b, Len(a))

RECURSIVE IntBitLen(_)
IntBitLen(n) == IF n = 0 THEN 0 ELSE 1 + IntBitLen(n \div 2)

BBitLen(a) == IF a = <<>> THEN 0 ELSE (Len(a) - 1) * LimbBits + IntBitLen(a[Len(a)])

BShl(a, k) ==
  IF a = <<>> THEN <<>>
  ELSE [i \in 1..(k \div LimbBits) |-> 0] \o BScale(a, 2^(k % LimbBits))

\* floor(a / 2^k)
BShr(a, k) ==
  LET q == k \div LimbBits
      r == k % LimbBits
  IN  IF q >= Len(a) THEN <<>>
      ELSE BNorm([i \in 1..(Len(a) - q) |->
                    (a[i + q] \div 2^r) + (Limb(a, i + q + 1) % 2^r) * 2^(LimbBits - r)])

BOdd(a) == a # <<>> /\ a[1] % 2 = 1

RECURSIVE BFromInt(_)
BFromInt(n) == IF n = 0 THEN <<>> ELSE <<n % LimbBase>> \o BFromInt(n \div LimbBase)

\* Number of trailing zero bits of a # 0
RECURSIVE BTrailingZeros(_)
BTrailingZeros(a) ==
  IF a[1] = 0 THEN LimbBits + BTrailingZeros(Tail(a))
  ELSE IF a[1] % 2 = 0 THEN 1 + BTrailingZeros(BShr(a, 1))
  ELSE 0

\* Short division by a small d (d < 2^20): <<quotient limbs (high first dropped), remainder>>
RECURSIVE BDivSmallFrom(_, _, _, _)
BDivSmallFrom(a, d, i, r) ==
  IF i = 0 THEN [q |-> <<>>, r |-> r]
  ELSE LET x    == r * LimbBase + a[i]
           rest == BDivSmallFrom(a, d, i - 1, x % d)
       IN  [q |-> rest.q \o <<x \div d>>, r |-> rest.r]

\* One step of long division: bit k of the quotient, found by comparing the
\* remainder r with b * 2^k
BDivStep(r, b, k, q) ==
  CHOOSE step \in {IF BCmp(r, bk) >= 0
                     THEN [q |-> BAdd(BScale(q, 2), <<1>>), r |-> BSub(r, bk)]
                     ELSE [q |-> BScale(q, 2), r |-> r] : bk \in {BShl(b, k)}} : TRUE

\* Long division, one quotient bit per step: the quotient and remainder of
\* r by b, for r < b * 2^(k+1); q holds the quotient bits found so far.
RECURSIVE BDivLong(_, _, _, _)
BDivLong(r, b, k, q) ==
  IF k < 0 THEN [q |-> q, r |-> r]
  ELSE CHOOSE res \in {BDivLong(step.r, b, k - 1, step.q) :
                          step \in {BDivStep(r, b, k, q)}} : TRUE

\* [q |-> floor(a / b), r |-> a mod b], for b # 0
BDivMod(a, b) ==
  IF Len(b) <= 2
    THEN LET d   == b[1] + Limb(b, 2) * LimbBase
             res == BDivSmallFrom(a, d, Len(a), 0)
         IN  [q |-> BNorm(res.q), r |-> BFromInt(res.r)]
    ELSE BDivLong(a, b, Max(0, BBitLen(a) - BBitLen(b)), <<>>)

RECURSIVE BPow(_, _)
BPow(a, n) ==
  IF n = 0 THEN <<1>>
  ELSE LET h  == BPow(a, n \div 2)
           sq == BMul(h, h)
       IN  IF n % 2 = 1 THEN BMul(sq, a) ELSE sq

(***************************************************************************)
(* JavaScript Number: IEEE-754 binary64                                    *)
(***************************************************************************)
MantBits == 53

\* A finite number is (-1)^s * m * 2^e: m has MantBits bits and e is in
\* MinExp..MaxExp (normal), or m has fewer bits and e is MinExp (subnormal),
\* or m is 0 and e is 0 (the two zeros).
MinExp == -1074
MaxExp == 971

NaN    == [k |-> "nan", s |-> 0, m |-> <<>>, e |-> 0]
Inf(s) == [k |-> "inf", s |-> s, m |-> <<>>, e |-> 0]
Zero   == [k |-> "num", s |-> 0, m |-> <<>>, e |-> 0]
SignedZero(s) == [k |-> "num", s |-> s, m |-> <<>>, e |-> 0]

IsNaN(x)  == x.k = "nan"
IsZero(x) == x.k = "num" /\ x.m = <<>>

\* The number with significand m of at most MantBits bits: Infinity above
\* the range, a zero for m = 0
Finite(s, m, e) ==
  IF m = <<>> THEN SignedZero(s)
  ELSE IF e > MaxExp THEN Inf(s)
  ELSE [k |-> "num", s |-> s, m |-> m, e |-> e]

\* The number with significand m1 of at most MantBits + 1 bits
Pack(s, m1, e) ==
  IF BBitLen(m1) > MantBits THEN Finite(s, BShr(m1, 1), e + 1) ELSE Finite(s, m1, e)

\* q rounded up or not: r are the bits dropped and c compares them with one
\* half.  "nearest" is to nearest, ties to even; "down" and "up" are towards
\* and away from zero.
RoundBy(mode, s, q, e, sticky, r, c) ==
  Pack(s,
       IF \/ mode = "nearest" /\ (c > 0 \/ (c = 0 /\ (sticky \/ BOdd(q))))
          \/ mode = "up" /\ (r # <<>> \/ sticky)
         THEN BAdd(q, <<1>>) ELSE q,
       e)

RoundRest(mode, s, q, e, sticky, d, r) ==
  RoundBy(mode, s, q, e, sticky, r, BCmp(r, BShl(<<1>>, d - 1)))

\* n rounded at bit d: q is n without its d low bits
RoundAt(mode, s, n, e, sticky, d, q) ==
  RoundRest(mode, s, q, e + d, sticky, d, BSub(n, BShl(q, d)))

\* n * 2^e with its lowest bit at exponent to
RoundTo(mode, s, n, e, sticky, to) ==
  IF to <= e THEN Finite(s, BShl(n, e - to), to)
  ELSE RoundAt(mode, s, n, e, sticky, to - e, BShr(n, to - e))

\* The double next to (-1)^s * n * 2^e in the direction of mode; sticky says
\* that the exact value lies strictly between n * 2^e and (n + 1) * 2^e (n
\* then has more than MantBits + 1 bits).
RoundMode(mode, s, n, e, sticky) ==
  IF n = <<>> THEN SignedZero(s)
  ELSE RoundTo(mode, s, n, e, sticky, Max(e + BBitLen(n) - MantBits, MinExp))

\* The double nearest to (-1)^s * n * 2^e, ties to even
RoundPack(s, n, e, sticky) == RoundMode("nearest", s, n, e, sticky)

FromNat(n) == RoundPack(0, n, 0, FALSE)
FromInt(i) == IF i >= 0 THEN FromNat(BFromInt(i))
              ELSE RoundPack(1, BFromInt(0 - i), 0, FALSE)

FNeg(x) == IF x.k = "nan" THEN x ELSE [x EXCEPT !.s = 1 - x.s]

\* Comparison of the magnitudes of two finite numbers: -1, 0, 1
MagCmp(x, y) ==
  IF x.m = <<>> THEN (IF y.m = <<>> THEN 0 ELSE -1)
  ELSE IF y.m = <<>> THEN 1
  ELSE IF x.e > y.e THEN 1
  ELSE IF x.e < y.e THEN -1
  ELSE BCmp(x.m, y.m)

Sgn(x) == IF IsZero(x) THEN 0 ELSE IF x.s = 1 THEN -1 ELSE 1

\* -1, 0, 1 for two numbers that are not NaN
FCmp(x, y) ==
  IF Sgn(x) # Sgn(y) THEN (IF Sgn(x) < Sgn(y) THEN -1 ELSE 1)
  ELSE IF Sgn(x) = 0 THEN 0
  ELSE LET mag == IF x.k = "inf" THEN (IF y.k = "inf" THEN 0 ELSE 1)
                  ELSE IF y.k = "inf" THEN -1
                  ELSE MagCmp(x, y)
       IN  Sgn(x) * mag

\* x < y, x <= y, x > y: false when either is NaN
FLt(x, y) == ~IsNaN(x) /\ ~IsNaN(y) /\ FCmp(x, y) < 0
FLe(x, y) == ~IsNaN(x) /\ ~IsNaN(y) /\ FCmp(x, y) <= 0
FGt(x, y) == ~IsNaN(x) /\ ~IsNaN(y) /\ FCmp(x, y) > 0

\* x + y for finite nonzero x, y with x.e >= y.e: nx is x.m at y's exponent
\* and c compares nx with y.m; x + (-x) is +0
AddAligned(x, y, nx, c) ==
  RoundPack(IF x.s = y.s \/ c > 0 THEN x.s ELSE IF c < 0 THEN y.s ELSE 0,
            IF x.s = y.s THEN BAdd(nx, y.m)
            ELSE IF c > 0 THEN BSub(nx, y.m)
            ELSE IF c < 0 THEN BSub(y.m, nx)
            ELSE <<>>,
            y.e, FALSE)

AddShifted(x, y, nx) == AddAligned(x, y, nx, BCmp(nx, y.m))

AddFinite(x, y) ==
  IF x.e - y.e > MantBits + 2 THEN x ELSE AddShifted(x, y, BShl(x.m, x.e - y.e))

FAdd(x, y) ==
  IF IsNaN(x) \/ IsNaN(y) THEN NaN
  ELSE IF x.k = "inf" THEN (IF y.k = "inf" /\ y.s # x.s THEN NaN ELSE x)
  ELSE IF y.k = "inf" THEN y
  ELSE IF IsZero(x) THEN (IF IsZero(y) /\ x.s # y.s THEN Zero ELSE y)
  ELSE IF IsZero(y) THEN x
  ELSE AddFinite(IF x.e >= y.e THEN x ELSE y, IF x.e >= y.e THEN y ELSE x)

FSub(x, y) == FAdd(x, FNeg(y))

Xor(a, b) == IF a = b THEN 0 ELSE 1

FMul(x, y) ==
  IF IsNaN(x) \/ IsNaN(y) THEN NaN
  ELSE IF x.k = "inf" \/ y.k = "inf"
    THEN (IF IsZero(x) \/ IsZero(y) THEN NaN ELSE Inf(Xor(x.s, y.s)))
  ELSE IF IsZero(x) \/ IsZero(y) THEN SignedZero(Xor(x.s, y.s))
  ELSE RoundPack(Xor(x.s, y.s), BMul(x.m, y.m), x.e + y.e, FALSE)

\* A finite nonzero x as an odd natural times a power of two
StripZeros(x, t) == [m |-> BShr(x.m, t), e |-> x.e + t]
OddPart(x) == StripZeros(x, BTrailingZeros(x.m))

DivRound(s, qr, e) == RoundPack(s, qr.q, e, qr.r # <<>>)

\* a * 2^e / b, with MantBits + 2 or more quotient bits computed
DivShifted(s, a, b, e, sh) == DivRound(s, BDivMod(BShl(a, sh), b), e - sh)

DivOdd(s, ox, oy) ==
  DivShifted(s, ox.m, oy.m, ox.e - oy.e, Max(0, MantBits + 2 + BBitLen(oy.m) - BBitLen(ox.m)))

FDiv(x, y) ==
  IF IsNaN(x) \/ IsNaN(y) THEN NaN
  ELSE IF x.k = "inf" THEN (IF y.k = "inf" THEN NaN ELSE Inf(Xor(x.s, y.s)))
  ELSE IF y.k = "inf" THEN SignedZero(Xor(x.s, y.s))
  ELSE IF IsZero(y) THEN (IF IsZero(x) THEN NaN ELSE Inf(Xor(x.s, y.s)))
  ELSE IF IsZero(x) THEN SignedZero(Xor(x.s, y.s))
  ELSE DivOdd(Xor(x.s, y.s), OddPart(x), OddPart(y))

\* The integer part of the magnitude of a finite x, as a natural
Trunc(x) == IF x.e >= 0 THEN BShl(x.m, x.e) ELSE BShr(x.m, 0 - x.e)

\* The integer value of a double that holds a small non-negative integer
ToInt(x) ==
  LET n == Trunc(x)
  IN  Limb(n, 1) + Limb(n, 2) * LimbBase + Limb(n, 3) * LimbBase * LimbBase

\* Math.pow is implementation-approximated: the engine returns a double
\* next to the exact power, not always the nearest one: for some arguments
\* the magnitude rounded down, for others rounded up.
MathPowBuilds == {"down", "up"}

PowOdd(build, s, ox, k) ==
  RoundMode(build, IF k % 2 = 1 THEN s ELSE 0, BPow(ox.m, k), k * ox.e, FALSE)

\* Math.pow(x, n) for n NaN, 0 or a positive integer, with the rounding
\* build; anything to the power 0 is 1
MathPow(build, x, n) ==
  IF IsNaN(n) THEN NaN
  ELSE IF IsZero(n) THEN FromInt(1)
  ELSE IF IsNaN(x) THEN NaN
  ELSE IF x.k = "inf" THEN Inf(IF ToInt(n) % 2 = 1 THEN x.s ELSE 0)
  ELSE IF IsZero(x) THEN SignedZero(IF ToInt(n) % 2 = 1 THEN x.s ELSE 0)
  ELSE PowOdd(build, x.s, OddPart(x), ToInt(n))

\* q or q + 1: c compares the fraction of x with one half
RoundHalf(x, q, c) ==
  RoundPack(x.s, IF (IF x.s = 0 THEN c >= 0 ELSE c > 0) THEN BAdd(q, <<1>>) ELSE q, 0, FALSE)

\* q is the integer part of the magnitude of x, which has d fraction bits
RoundFrac(x, d, q) == RoundHalf(x, q, BCmp(BSub(x.m, BShl(q, d)), BShl(<<1>>, d - 1)))

\* Math.round(x): the integer nearest to x, halves rounded towards +Infinity;
\* -0 for x in [-0.5, 0]
MathRound(x) ==
  IF x.k # "num" \/ IsZero(x) \/ x.e >= 0 THEN x
  ELSE RoundFrac(x, 0 - x.e, BShr(x.m, 0 - x.e))

(***************************************************************************)
(* Strings are sequences of characters                                     *)
(***************************************************************************)
DigitChars == <<"0", "1", "2", "3", "4", "5", "6", "7", "8", "9">>

IsDigit(c) == \E d \in 1..10 : DigitChars[d] = c
DigitVal(c) == (CHOOSE d \in 1..10 : DigitChars[d] = c) - 1

AllDigits(str) == \A p \in 1..Len(str) : IsDigit(str[p])

\* The natural number written by the digits lo..hi of str
RECURSIVE DigitsValue(_, _, _)
DigitsValue(str, lo, hi) ==
  IF lo > hi THEN <<>>
  ELSE IF lo = hi THEN BFromInt(DigitVal(str[lo]))
  ELSE LET mid == (lo + hi) \div 2
       IN  BAdd(BMul(DigitsValue(str, lo, mid), BPow(<<10>>, hi - mid)),
                DigitsValue(str, mid + 1, hi))

\* StrWhiteSpaceChar: white space and line terminators.  The characters
\* that cannot be written in a string of this language stand as their code
\* points, "U+2000" for the character U+2000.
WhiteSpace ==
  {" ", "\t", "\n", "\r", "\f", "", " ", " ", "﻿",
   "U+2000", "U+2001", "U+2002", "U+2003", "U+2004", "U+2005", "U+2006", "U+2007",
   "U+2008", "U+2009", "U+200A", "U+2028", "U+2029", "U+202F", "U+205F", "U+3000"}

\* The position of the first character of str that is not in cs, Len(str) + 1
\* without one
FirstNot(str, cs) ==
  IF \E p \in 1..Len(str) : str[p] \notin cs
    THEN CHOOSE p \in 1..Len(str) : str[p] \notin cs /\ \A q \in 1..(p - 1) : str[q] \in cs
    ELSE Len(str) + 1

\* The position of the last character of str that is not in cs, 0 without one
LastNot(str, cs) ==
  IF \E p \in 1..Len(str) : str[p] \notin cs
    THEN CHOOSE p \in 1..Len(str) :
           str[p] \notin cs /\ \A q \in (p + 1)..Len(str) : str[q] \in cs
    ELSE 0

TrimStart(str) == SubSeq(str, FirstNot(str, WhiteSpace), Len(str))

TrimEnd(str) == SubSeq(str, 1, LastNot(str, WhiteSpace))

Trim(str) == TrimEnd(TrimStart(str))

\* The position of the first character of str that is in cs, Len(str) + 1
\* without one
FirstOf(str, cs) ==
  IF \E p \in 1..Len(str) : str[p] \in cs
    THEN CHOOSE p \in 1..Len(str) : str[p] \in cs /\ \A q \in 1..(p - 1) : str[q] \notin cs
    ELSE Len(str) + 1

HexLower == DigitChars \o <<"a", "b", "c", "d", "e", "f">>
HexUpper == DigitChars \o <<"A", "B", "C", "D", "E", "F">>

\* The value of the digit c, 16 for a character that is no digit
RadixDigit(c) ==
  IF \E d \in 1..16 : HexLower[d] = c THEN (CHOOSE d \in 1..16 : HexLower[d] = c) - 1
  ELSE IF \E d \in 1..16 : HexUpper[d] = c THEN (CHOOSE d \in 1..16 : HexUpper[d] = c) - 1
  ELSE 16

\* The natural number written by the digits lo..hi of str in radix
RECURSIVE RadixValue(_, _, _, _)
RadixValue(str, radix, lo, hi) ==
  IF lo > hi THEN <<>>
  ELSE IF lo = hi THEN BFromInt(RadixDigit(str[lo]))
  ELSE LET mid == (lo + hi) \div 2
       IN  BAdd(BMul(RadixValue(str, radix, lo, mid), BPow(BFromInt(radix), hi - mid)),
                RadixValue(str, radix, mid + 1, hi))

\* 0x, 0o, 0b literals: digits are the characters after the prefix
NonDecimal(digits, radix) ==
  IF digits = <<>> \/ \E p \in 1..Len(digits) : RadixDigit(digits[p]) >= radix THEN NaN
  ELSE RoundPack(0, RadixValue(digits, radix, 1, Len(digits)), 0, FALSE)

RadixOf(str) ==
  IF Len(str) < 2 \/ str[1] # "0" THEN 10
  ELSE IF str[2] \in {"x", "X"} THEN 16
  ELSE IF str[2] \in {"o", "O"} THEN 8
  ELSE IF str[2] \in {"b", "B"} THEN 2
  ELSE 10

StripLeadingZeros(digits) == SubSeq(digits, FirstNot(digits, {"0"}), Len(digits))

\* Literals beyond these decimal exponents are Infinity and 0
MaxDecimalExp == 309
MinDecimalExp == -330

\* The exponents of a literal, cut off far beyond the range of a double
ExpDigitsCap == 9
ExpCap == 999999999

RECURSIVE DigitsInt(_, _)
DigitsInt(digits, hi) ==
  IF hi = 0 THEN 0 ELSE DigitsInt(digits, hi - 1) * 10 + DigitVal(digits[hi])

ExpMagnitude(sig) == IF Len(sig) > ExpDigitsCap THEN ExpCap ELSE DigitsInt(sig, Len(sig))

ExpUnsigned(expo) ==
  IF expo # <<>> /\ expo[1] \in {"+", "-"} THEN Tail(expo) ELSE expo

\* The value of the ExponentPart after its "e", 0 without one
ExponentOf(expo) ==
  IF expo # <<>> /\ expo[1] = "-"
    THEN 0 - ExpMagnitude(StripLeadingZeros(ExpUnsigned(expo)))
    ELSE ExpMagnitude(StripLeadingZeros(ExpUnsigned(expo)))

\* a / b for naturals a, b # 0, rounded once
DivNat(s, a, b) ==
  DivShifted(s, a, b, 0, Max(0, MantBits + 2 + BBitLen(b) - BBitLen(a)))

\* sig * 10^p, rounded once; sig has no leading zero
NumberScaled(s, sig, p) ==
  IF sig = <<>> THEN SignedZero(s)
  ELSE IF Len(sig) + p > MaxDecimalExp THEN Inf(s)
  ELSE IF Len(sig) + p < MinDecimalExp THEN SignedZero(s)
  ELSE IF p >= 0
    THEN RoundPack(s, BMul(DigitsValue(sig, 1, Len(sig)), BPow(<<10>>, p)), 0, FALSE)
  ELSE DivNat(s, DigitsValue(sig, 1, Len(sig)), BPow(<<10>>, 0 - p))

\* digits are the characters of the significand without its point, the last
\* nfrac of them after the point; expo is the ExponentPart after its "e" and
\* hasExp says that there is an "e"
NumberDigits(s, digits, nfrac, expo, hasExp) ==
  IF digits = <<>> \/ ~AllDigits(digits) THEN NaN
  ELSE IF hasExp /\ (ExpUnsigned(expo) = <<>> \/ ~AllDigits(ExpUnsigned(expo))) THEN NaN
  ELSE NumberScaled(s, StripLeadingZeros(digits), ExponentOf(expo) - nfrac)

\* dot is the position of the first point of mant, Len(mant) + 1 without one
NumberParts(s, mant, dot, expo, hasExp) ==
  NumberDigits(s, SubSeq(mant, 1, dot - 1) \o SubSeq(mant, dot + 1, Len(mant)),
               Max(0, Len(mant) - dot), expo, hasExp)

\* epos is the position of the first "e" of body, Len(body) + 1 without one
NumberExp(s, body, epos) ==
  NumberParts(s, SubSeq(body, 1, epos - 1), FirstOf(SubSeq(body, 1, epos - 1), {"."}),
              SubSeq(body, epos + 1, Len(body)), epos <= Len(body))

\* StrUnsignedDecimalLiteral
NumberBody(s, body) ==
  IF body = <<"I", "n", "f", "i", "n", "i", "t", "y">> THEN Inf(s)
  ELSE NumberExp(s, body, FirstOf(body, {"e", "E"}))

\* StrNumericLiteral
NumberLiteral(str) ==
  IF str = <<>> THEN Zero
  ELSE IF RadixOf(str) # 10 THEN NonDecimal(SubSeq(str, 3, Len(str)), RadixOf(str))
  ELSE NumberBody(IF str[1] = "-" THEN 1 ELSE 0,
                  IF str[1] \in {"-", "+"} THEN Tail(str) ELSE str)

\* Number(str): white space around the literal is dropped, the empty string
\* is 0, a numeric literal is the double nearest to it, anything else is NaN
Number(str) == NumberLiteral(Trim(str))

RECURSIVE DecimalDigits(_)

DigitsOf(qr) == DecimalDigits(qr.q) \o <<DigitChars[Limb(qr.r, 1) + 1]>>

\* The decimal digits of the natural n, none for 0
DecimalDigits(n) == IF n = <<>> THEN <<>> ELSE DigitsOf(BDivMod(n, <<10>>))

\* Digits with a comma before every group of three
RECURSIVE Grouped(_)
Grouped(ds) ==
  IF Len(ds) <= 3 THEN ds
  ELSE Grouped(SubSeq(ds, 1, Len(ds) - 3)) \o <<",">> \o SubSeq(ds, Len(ds) - 2, Len(ds))

\* The integer nearest to the magnitude of x, halves away from zero, for x
\* with d > 0 fraction bits; q is the integer part
HalfExpand(x, d, q) ==
  IF BCmp(BSub(x.m, BShl(q, d)), BShl(<<1>>, d - 1)) >= 0 THEN BAdd(q, <<1>>) ELSE q

\* Of the multiples lo and hi of a power of ten around n: the one that reads
\* back as v, the nearer one if both do, none (<<>>) if neither does
ReadsBack(v, n, lo, hi) ==
  IF FromNat(lo) = v
    THEN (IF FromNat(hi) = v /\ BCmp(BSub(hi, n), BSub(n, lo)) < 0 THEN <<hi>> ELSE <<lo>>)
  ELSE IF FromNat(hi) = v THEN <<hi>>
  ELSE <<>>

Around(v, n, t, q) == ReadsBack(v, n, BMul(q, t), BMul(BAdd(q, <<1>>), t))

\* The natural with the fewest significant digits, k or more, that reads
\* back as the double v = n; len is the number of digits of n
RECURSIVE Shortest(_, _, _, _)

ShortestOr(v, n, len, k, found) ==
  IF found # <<>> THEN found[1] ELSE Shortest(v, n, len, k + 1)

ShortestAt(v, n, len, k, t) == ShortestOr(v, n, len, k, Around(v, n, t, BDivMod(n, t).q))

Shortest(v, n, len, k) ==
  IF k >= len THEN n ELSE ShortestAt(v, n, len, k, BPow(<<10>>, len - k))

ShortestInteger(v, n) == Shortest(v, n, Len(DecimalDigits(n)), 1)

\* The integer digits that the formatter prints for a finite x: the nearest
\* integer, halves away from zero; above 2^53 the shortest digits that read
\* back as x, then zeros
FormatInteger(x) ==
  IF IsZero(x) THEN <<>>
  ELSE IF x.e > 0 THEN ShortestInteger([x EXCEPT !.s = 0], BShl(x.m, x.e))
  ELSE IF x.e = 0 THEN x.m
  ELSE HalfExpand(x, 0 - x.e, BShr(x.m, 0 - x.e))

FormatDigits(n) == IF n = <<>> THEN <<"0">> ELSE Grouped(DecimalDigits(n))

\* currencyFormatter.format(x) (en-US, AUD, no fraction digits); the
\* infinity sign is written as one character "Infinity"
CurrencyFormat(x) ==
  (IF x.k # "nan" /\ x.s = 1 THEN <<"-">> ELSE <<>>)
    \o <<"A", "$">>
    \o (IF x.k = "nan" THEN <<"N", "a", "N">>
        ELSE IF x.k = "inf" THEN <<"Infinity">>
        ELSE FormatDigits(FormatInteger(x)))

(***************************************************************************)
(* The program                                                             *)
(***************************************************************************)
EPSILON == Number(<<"0", ".", "0", "1">>)

\* The factor of "Number(state.interest) * 0.01"
Percent == Number(<<"0", ".", "0", "1">>)

Twelve == FromInt(12)

termYears == [n \in 1..30 |-> n]

\* The array index that the property key loanTerm names: "0", "1", ... are
\* the indices of an array (here below 100), any other key names no element
IndexKey(n) ==
  IF n < 10 THEN <<DigitChars[n + 1]>>
  ELSE <<DigitChars[(n \div 10) + 1], DigitChars[(n % 10) + 1]>>
HasIndex(loanTerm) == \E n \in 0..(Len(termYears) - 1) : IndexKey(n) = loanTerm
IndexOf(loanTerm) == CHOOSE n \in 0..(Len(termYears) - 1) : IndexKey(n) = loanTerm

\* termYears[loanTerm] * 12: an index names an element, "length" the length
\* of the array, "__proto__" the prototype of arrays, which as a number is
\* 0; any other key gives undefined or an inherited function, and that
\* times 12 is NaN
termMonths(loanTerm) ==
  IF HasIndex(loanTerm) THEN FromInt(termYears[IndexOf(loanTerm) + 1] * 12)
  ELSE IF loanTerm = <<"l", "e", "n", "g", "t", "h">> THEN FromInt(Len(termYears) * 12)
  ELSE IF loanTerm = <<"_", "_", "p", "r", "o", "t", "o", "_", "_">> THEN FromInt(0 * 12)
  ELSE NaN

\* loanAmount * a / b for the monthly rate i and the term in months
Amortization(build, loanAmount_, i, termMonths_) ==
  FDiv(FMul(loanAmount_, FMul(i, MathPow(build, FAdd(FromInt(1), i), termMonths_))),
       FSub(MathPow(build, FAdd(FromInt(1), i), termMonths_), FromInt(1)))

\* The fixed monthly payment
calcMonthlyPayment(build, loanAmount_, interest_, loanTerm_) ==
  Amortization(build, loanAmount_, FDiv(interest_, Twelve), termMonths(loanTerm_))

\* The arguments of the two calls of Math.pow in calculate
PowArgs(interest_, loanTerm_) ==
  [x |-> FAdd(FromInt(1), FDiv(interest_, Twelve)), n |-> termMonths(loanTerm_)]

\* Math.pow is a function: r may be returned for the arguments a if no
\* earlier call with these arguments, of those in returned, had another value
Serves(returned, a, r) == \A e \in returned : (e.x = a.x /\ e.n = a.n) => e.r = r

\* returned with the value r for the arguments a; a power that Math.pow
\* has only one value for needs no record
Remember(returned, a, r) ==
  IF \A build \in MathPowBuilds : MathPow(build, a.x, a.n) = r THEN returned
  ELSE returned \cup {[x |-> a.x, n |-> a.n, r |-> r]}

\* !x for a number x
Not(x) == IsNaN(x) \/ IsZero(x)

\* The three tests of handleSubmit, in the order in which it makes them
loanAmountInvalid(x) == IsNaN(x) \/ Not(x)
interestInvalid(x) == IsNaN(x) \/ Not(x)
\* The third test without its sign check, for comparison
extraMonthlyPaymentInvalid_NoSign(x) == IsNaN(x)

extraMonthlyPaymentInvalid(x) == IsNaN(x) \/ FLt(x, Zero)

VARIABLES
  state,            \* the valtio proxy: the four form fields, error, results
  chartRef,         \* chartRef.current: <<>> before the chart exists
  pc,               \* "mount", "idle", or the position inside calculate
  loanAmount,       \* calculate's arguments ...
  interest,
  loanTerm,
  extraPrincipal,
  monthlyPayment,   \* ... and its locals
  principal,
  totalPaid,
  payments,
  monthlyPayments,
  j,
  ret,              \* what calculate returned: <<>> or <<result>>
  ref,              \* history: the first completed call, <<>> or <<[args, ret]>>
  between,          \* history: a call with other arguments completed since ref
  mathPow           \* what Math.pow has returned so far where it has a choice:
                    \* a set of [x, n, r]

vars == <<state, chartRef, pc, loanAmount, interest, loanTerm, extraPrincipal,
          monthlyPayment, principal, totalPaid, payments, monthlyPayments, j,
          ret, ref, between, mathPow>>

frame == <<loanAmount, interest, loanTerm, extraPrincipal, monthlyPayment,
           principal, totalPaid, payments, monthlyPayments, j>>

hist == <<ref, between>>

(***************************************************************************)
(* Bounds and inputs                                                       *)
(***************************************************************************)
\* Months of one call that the model follows
MaxMonths == 40

\* What the user may type or select
AmountInputs   == {<<"5", "0", "0", "0", "0", "0">>, <<"-", "5", "0", "0", "0", "0", "0">>,
                   <<"0">>, <<"a", "b", "c">>}
InterestInputs == {<<"6", ".", "0", "9">>, <<"-", "6", "0", "0">>, <<"0">>, <<"a", "b", "c">>}
TermInputs     == {<<"0">>, <<"1">>}
ExtraInputs    == {<<"0">>, <<"-", "5">>, <<"a", "b", "c">>}

\* Arguments of the calls of calculate explored on their own
CalcAmounts == {<<"0", ".", "0", "1">>, <<"1">>, <<"2", "3">>,
                <<"5", "0", "0", "0", "0", "0">>,
                <<"1", "0", "0", "0", "0", "0", "0", "0", "0", "0", "0", "0", "0", "0", "0">>}
CalcRates   == {<<"6", ".", "0", "9">>, <<"3", "6", "0", "0">>, <<"5", "2", "0", "0">>}
CalcTerms   == {<<"0">>, <<"1">>, <<"2">>, <<"3", "0">>,
                <<"_", "_", "p", "r", "o", "t", "o", "_", "_">>}
CalcExtras  == {<<"0">>, <<"5", "0">>}
PairExtras  == {<<"5", "0">>, <<"5", "0", "0">>}

\* The iteration cap of 100 years of 12 months, and the months the model
\* follows a call when it looks for that cap
DefensiveCap == 1200
CapMonths    == DefensiveCap + 1

\* Arguments of the calls explored up to the cap: the payment of the first
\* exactly equals the interest, the second pays the loan off
CapAmounts == {<<"1">>}
CapRates   == {<<"3", "6", "0", "0">>}
CapTerms   == {<<"2">>}
CapExtras  == {<<"0">>, <<"5", "0">>}

\* Arguments of the calls whose totals are added up.  Over 2 years: amounts
\* up to the end of the double range, and a rate so small that the monthly
\* rate is 0.  Over 30 years: an amount whose additions are rounded.  Every
\* one of these calls returns.
TotalCalls ==
  ({<<"5", "0", "0", "0", "0", "0">>,
    <<"1", "0", "0", "0", "0", "0", "0", "0", "0", "0", "0", "0", "0", "0", "0">>,
    <<"1", "e", "3", "0", "8">>}
      \X {<<"6", ".", "0", "9">>, <<"3", "6", "0", "0">>,
          <<"5", "e", "-", "3", "2", "2">>}
      \X {<<"1">>} \X {<<"0">>, <<"5", "0">>})
  \cup
  ({<<"1", "0", "0", "0", "0", "0", "0", "0", "0", "0", "0", "0", "0", "0", "0">>}
      \X {<<"6", ".", "0", "9">>} \X {<<"2", "9">>} \X {<<"0">>})

(***************************************************************************)
(* Initial states                                                          *)
(***************************************************************************)
initialState ==
  [loanAmount          |-> <<"5", "0", "0", "0", "0", "0">>,
   interest            |-> <<"6", ".", "0", "9">>,
   loanTerm            |-> <<"0">>,
   extraMonthlyPayment |-> <<"0">>,
   error               |-> <<>>,
   results             |-> [monthlyPayment |-> <<>>, totalPaid |-> <<>>,
                            totalYears |-> <<>>, tableData |-> <<>>]]

\* The arguments and locals of calculate before the first call
idleFrame ==
  [loanAmount |-> Zero, interest |-> Zero, loanTerm |-> <<>>, extraPrincipal |-> Zero,
   monthlyPayment |-> Zero, principal |-> Zero, totalPaid |-> Zero,
   payments |-> <<>>, monthlyPayments |-> <<>>, j |-> 0]

\* calculate with the extra payment counted into the fixed payment
calculateEntry_ExtraInPayment(build, la, int, term, extra) ==
  [loanAmount |-> la, interest |-> int, loanTerm |-> term, extraPrincipal |-> extra,
   monthlyPayment |-> FAdd(calcMonthlyPayment(build, la, int, term), extra),
   principal |-> la, totalPaid |-> Zero,
   payments |-> <<>>, monthlyPayments |-> <<>>, j |-> 0]

\* calculate with its payments array shared by all calls
calculateEntry_SharedPayments(build, la, int, term, extra) ==
  [loanAmount |-> la, interest |-> int, loanTerm |-> term, extraPrincipal |-> extra,
   monthlyPayment |-> calcMonthlyPayment(build, la, int, term),
   principal |-> la, totalPaid |-> Zero,
   payments |-> payments, monthlyPayments |-> <<>>, j |-> 0]

\* The arguments and locals of calculate(la, int, term, extra) when it
\* reaches its while loop: every call starts from new locals, whatever an
\* earlier call left in them
calculateEntry(build, la, int, term, extra) ==
  [loanAmount |-> la, interest |-> int, loanTerm |-> term, extraPrincipal |-> extra,
   monthlyPayment |-> calcMonthlyPayment(build, la, int, term),
   principal |-> la, totalPaid |-> Zero,
   payments |-> <<>>, monthlyPayments |-> <<>>, j |-> 0]

FrameIs(f) ==
  /\ loanAmount = f.loanAmount /\ interest = f.interest /\ loanTerm = f.loanTerm
  /\ extraPrincipal = f.extraPrincipal /\ monthlyPayment = f.monthlyPayment
  /\ principal = f.principal /\ totalPaid = f.totalPaid
  /\ payments = f.payments /\ monthlyPayments = f.monthlyPayments /\ j = f.j

FrameBecomes(f) ==
  /\ loanAmount' = f.loanAmount /\ interest' = f.interest /\ loanTerm' = f.loanTerm
  /\ extraPrincipal' = f.extraPrincipal /\ monthlyPayment' = f.monthlyPayment
  /\ principal' = f.principal /\ totalPaid' = f.totalPaid
  /\ payments' = f.payments /\ monthlyPayments' = f.monthlyPayments /\ j' = f.j

\* The page before its first render is committed
Init ==
  /\ mathPow = {}
  /\ state = initialState
  /\ chartRef = <<>>
  /\ pc = "mount"
  /\ FrameIs(idleFrame)
  /\ ret = <<>>
  /\ ref = <<>> /\ between = FALSE

\* calculate called on its own
InitCalc ==
  /\ state = initialState
  /\ chartRef = <<>>
  /\ pc = "while"
  /\ \E a \in CalcAmounts, r \in CalcRates, t \in CalcTerms, x \in CalcExtras :
     \E build \in MathPowBuilds :
     \E pw \in {PowArgs(FMul(Number(r), Percent), t)} :
       /\ mathPow = Remember({}, pw, MathPow(build, pw.x, pw.n))
       /\ \E f \in {calculateEntry(build, Number(a), FMul(Number(r), Percent), t, Number(x))} :
            FrameIs(f)
  /\ ret = <<>>
  /\ ref = <<>> /\ between = FALSE

\* calculate called on its own, followed up to the iteration cap
InitCap ==
  /\ state = initialState
  /\ chartRef = <<>>
  /\ pc = "while"
  /\ \E a \in CapAmounts, r \in CapRates, t \in CapTerms, x \in CapExtras :
     \E build \in MathPowBuilds :
     \E pw \in {PowArgs(FMul(Number(r), Percent), t)} :
       /\ mathPow = Remember({}, pw, MathPow(build, pw.x, pw.n))
       /\ \E f \in {calculateEntry(build, Number(a), FMul(Number(r), Percent), t, Number(x))} :
            FrameIs(f)
  /\ ret = <<>>
  /\ ref = <<>> /\ between = FALSE

\* calculate called on its own, with the arguments whose totals are added up
InitTotal ==
  /\ state = initialState
  /\ chartRef = <<>>
  /\ pc = "while"
  /\ \E call \in TotalCalls :
     \E build \in MathPowBuilds :
     \E pw \in {PowArgs(FMul(Number(call[2]), Percent), call[3])} :
       /\ mathPow = Remember({}, pw, MathPow(build, pw.x, pw.n))
       /\ \E f \in {calculateEntry(build, Number(call[1]), FMul(Number(call[2]), Percent),
                                    call[3], Number(call[4]))} :
            FrameIs(f)
  /\ ret = <<>>
  /\ ref = <<>> /\ between = FALSE

(***************************************************************************)
(* The change handlers                                                     *)
(***************************************************************************)
handleAmountChange ==
  /\ pc = "idle"
  /\ \E value \in AmountInputs : state' = [state EXCEPT !.loanAmount = value]
  /\ UNCHANGED <<chartRef, pc, frame, ret, hist, mathPow>>

handleTermChange ==
  /\ pc = "idle"
  /\ \E value \in TermInputs : state' = [state EXCEPT !.loanTerm = value]
  /\ UNCHANGED <<chartRef, pc, frame, ret, hist, mathPow>>

\* handleInterestChange that also resets the error
handleInterestChange_ClearsError ==
  /\ pc = "idle"
  /\ \E value \in InterestInputs :
       state' = [state EXCEPT !.interest = value, !.error = <<"">>]
  /\ UNCHANGED <<chartRef, pc, frame, ret, hist, mathPow>>

handleInterestChange ==
  /\ pc = "idle"
  /\ \E value \in InterestInputs : state' = [state EXCEPT !.interest = value]
  /\ UNCHANGED <<chartRef, pc, frame, ret, hist, mathPow>>

handleExtraMonthlyPaymentChange ==
  /\ pc = "idle"
  /\ \E value \in ExtraInputs : state' = [state EXCEPT !.extraMonthlyPayment = value]
  /\ UNCHANGED <<chartRef, pc, frame, ret, hist, mathPow>>

(***************************************************************************)
(* handleSubmit and calculate                                              *)
(***************************************************************************)
\* handleSubmit up to the call of calculate
\* handleSubmit without the reset of the error when the form is valid
handleSubmit_KeepsError ==
  /\ pc \in {"mount", "idle"}
  /\ \E la  \in {Number(state.loanAmount)} :
     \E int \in {FMul(Number(state.interest), Percent)} :
     \E ex  \in {Number(state.extraMonthlyPayment)} :
       IF loanAmountInvalid(la)
         THEN /\ state' = [state EXCEPT !.error = <<"Loan amount is invalid">>]
              /\ pc' = "idle"
              /\ UNCHANGED <<frame, mathPow>>
       ELSE IF interestInvalid(int)
         THEN /\ state' = [state EXCEPT !.error = <<"Interest is invalid">>]
              /\ pc' = "idle"
              /\ UNCHANGED <<frame, mathPow>>
       ELSE IF extraMonthlyPaymentInvalid(ex)
         THEN /\ state' = [state EXCEPT !.error = <<"Extra monthly payment is invalid">>]
              /\ pc' = "idle"
              /\ UNCHANGED <<frame, mathPow>>
       ELSE /\ state' = state
            /\ pc' = "while"
            /\ \E build \in MathPowBuilds :
               \E pw \in {PowArgs(int, state.loanTerm)} :
               \E r \in {MathPow(build, pw.x, pw.n)} :
                 /\ Serves(mathPow, pw, r)
                 /\ mathPow' = Remember(mathPow, pw, r)
                 /\ \E f \in {calculateEntry(build, la, int, state.loanTerm, ex)} :
                      FrameBecomes(f)
  /\ UNCHANGED <<chartRef, ret, hist>>

handleSubmit ==
  /\ pc \in {"mount", "idle"}
  /\ \E la  \in {Number(state.loanAmount)} :
     \E int \in {FMul(Number(state.interest), Percent)} :
     \E ex  \in {Number(state.extraMonthlyPayment)} :
       IF loanAmountInvalid(la)
         THEN /\ state' = [state EXCEPT !.error = <<"Loan amount is invalid">>]
              /\ pc' = "idle"
              /\ UNCHANGED <<frame, mathPow>>
       ELSE IF interestInvalid(int)
         THEN /\ state' = [state EXCEPT !.error = <<"Interest is invalid">>]
              /\ pc' = "idle"
              /\ UNCHANGED <<frame, mathPow>>
       ELSE IF extraMonthlyPaymentInvalid(ex)
         THEN /\ state' = [state EXCEPT !.error = <<"Extra monthly payment is invalid">>]
              /\ pc' = "idle"
              /\ UNCHANGED <<frame, mathPow>>
       ELSE /\ state' = [state EXCEPT !.error = <<"">>]
            /\ pc' = "while"
            /\ \E build \in MathPowBuilds :
               \E pw \in {PowArgs(int, state.loanTerm)} :
               \E r \in {MathPow(build, pw.x, pw.n)} :
                 /\ Serves(mathPow, pw, r)
                 /\ mathPow' = Remember(mathPow, pw, r)
                 /\ \E f \in {calculateEntry(build, la, int, state.loanTerm, ex)} :
                      FrameBecomes(f)
  /\ UNCHANGED <<chartRef, ret, hist>>

\* Months executed so far by the active call
Count(yrs) == Cardinality(UNION {{<<y, m>> : m \in 1..Len(yrs[y])} : y \in 1..Len(yrs)})

Months == Count(payments) + (IF pc = "for" THEN Len(monthlyPayments) ELSE 0)

\* The while loop with one monthlyPayments array for all the years
calculateWhile_OneArray ==
  /\ pc = "while"
  /\ IF FGt(principal, EPSILON)
       THEN pc' = "for" /\ j' = 0 /\ UNCHANGED monthlyPayments
       ELSE pc' = "return" /\ UNCHANGED <<monthlyPayments, j>>
  /\ UNCHANGED <<state, chartRef, loanAmount, interest, loanTerm, extraPrincipal,
                 monthlyPayment, principal, totalPaid, payments, ret, hist, mathPow>>

\* The test of the while loop
calculateWhile ==
  /\ pc = "while"
  /\ IF FGt(principal, EPSILON)
       THEN pc' = "for" /\ monthlyPayments' = <<>> /\ j' = 0
       ELSE pc' = "return" /\ UNCHANGED <<monthlyPayments, j>>
  /\ UNCHANGED <<state, chartRef, loanAmount, interest, loanTerm, extraPrincipal,
                 monthlyPayment, principal, totalPaid, payments, ret, hist, mathPow>>

\* The principal portion without the clamp
clamp_Never(principal_, principalPayment) == principalPayment

\* if (principal <= principalPayment) principalPayment = principal
clamp(principal_, principalPayment) ==
  IF FLe(principal_, principalPayment) THEN principal_ ELSE principalPayment

\* totalPaid += interestPayment + principalPayment, with the payment left out
accumulate_InterestOnly(totalPaid_, interestPayment, principalPayment) ==
  FAdd(totalPaid_, interestPayment)

\* totalPaid += interestPayment + principalPayment
accumulate(totalPaid_, interestPayment, principalPayment) ==
  FAdd(totalPaid_, FAdd(interestPayment, principalPayment))

\* One month: one pass of the for loop, and the push of the year when the
\* loop ends with it.  The model follows at most limit months of a call.
Month(limit) ==
  /\ pc = "for"
  /\ Months < limit
  /\ \E interestPayment \in {FDiv(FMul(principal, interest), Twelve)} :
     \E due \in {FSub(FAdd(monthlyPayment, extraPrincipal), interestPayment)} :
     \E principalPayment \in {clamp(principal, due)} :
     \E left \in {FSub(principal, principalPayment)} :
     \E snapped \in {IF FLe(left, EPSILON) THEN Zero ELSE left} :
     \E break \in {FLe(snapped, EPSILON)} :
     \E pushed \in {Append(monthlyPayments,
                           [interestPayment  |-> interestPayment,
                            principalPayment |-> principalPayment,
                            principal        |-> snapped,
                            totalPaid        |-> accumulate(totalPaid, interestPayment,
                                                                    principalPayment)])} :
       /\ principal' = snapped
       /\ totalPaid' = pushed[Len(pushed)].totalPaid
       /\ monthlyPayments' = pushed
       /\ j' = IF break THEN j ELSE j + 1
       /\ IF break \/ j + 1 >= 12
            THEN /\ payments' = IF Len(pushed) > 0 THEN Append(payments, pushed) ELSE payments
                 /\ pc' = "while"
            ELSE UNCHANGED <<payments, pc>>
  /\ UNCHANGED <<state, chartRef, loanAmount, interest, loanTerm, extraPrincipal,
                 monthlyPayment, ret, hist, mathPow>>

calculateFor == Month(MaxMonths)

calculateForCap == Month(CapMonths)

\* yearInterest and yearPrincipal: the sums of a year's first n months,
\* added in order from 0
RECURSIVE yearInterest(_, _)
yearInterest(year, n) ==
  IF n = 0 THEN Zero
  ELSE LET sum == yearInterest(year, n - 1)
       IN  IF sum.e = sum.e THEN FAdd(sum, year[n].interestPayment) ELSE sum

RECURSIVE yearPrincipal(_, _)
yearPrincipal(year, n) ==
  IF n = 0 THEN Zero
  ELSE LET sum == yearPrincipal(year, n - 1)
       IN  IF sum.e = sum.e THEN FAdd(sum, year[n].principalPayment) ELSE sum

\* monthlyPayments[monthlyPayments.length - 1]?.principal ?? 0
lastPrincipal(year) == IF Len(year) > 0 THEN year[Len(year)].principal ELSE Zero

\* The aggregation of a year with the averages taken over 12 months
aggregate_OverTwelve(year, yearInterest_, yearPrincipal_) ==
  [interest  |-> FDiv(yearInterest_, Twelve),
   principal |-> FDiv(yearPrincipal_, Twelve),
   row       |-> [interest         |-> CurrencyFormat(MathRound(yearInterest_)),
                  principal        |-> CurrencyFormat(MathRound(yearPrincipal_)),
                  principalBalance |-> CurrencyFormat(MathRound(lastPrincipal(year)))]]

\* One pass of payments.forEach: the two chart values and the table row of
\* a year, from its sums
aggregate(year, yearInterest_, yearPrincipal_) ==
  [interest  |-> FDiv(yearInterest_, FromInt(Len(year))),
   principal |-> FDiv(yearPrincipal_, FromInt(Len(year))),
   row       |-> [interest         |-> CurrencyFormat(MathRound(yearInterest_)),
                  principal        |-> CurrencyFormat(MathRound(yearPrincipal_)),
                  principalBalance |-> CurrencyFormat(MathRound(lastPrincipal(year)))]]

forEach(yrs) ==
  [index \in 1..Len(yrs) |->
     aggregate(yrs[index], yearInterest(yrs[index], Len(yrs[index])),
                           yearPrincipal(yrs[index], Len(yrs[index])))]

\* chartData with the years labelled from 0
chartDataOf_LabelsFromZero(each) ==
  [labels   |-> [index \in 1..Len(each) |-> index - 1],
   datasets |-> <<[index \in 1..Len(each) |-> each[index].interest],
                  [index \in 1..Len(each) |-> each[index].principal]>>]

chartDataOf(each) ==
  [labels   |-> [index \in 1..Len(each) |-> index],
   datasets |-> <<[index \in 1..Len(each) |-> each[index].interest],
                  [index \in 1..Len(each) |-> each[index].principal]>>]

tableDataOf(each) == [index \in 1..Len(each) |-> each[index].row]

resultOf(each) ==
  [monthlyPayment |-> CurrencyFormat(MathRound(monthlyPayment)),
   totalPaid      |-> CurrencyFormat(MathRound(totalPaid)),
   totalYears     |-> Len(payments),
   chartData      |-> chartDataOf(each),
   tableData      |-> tableDataOf(each)]

\* The object that calculate returns
result == resultOf(forEach(payments))

args == <<loanAmount, interest, loanTerm, extraPrincipal>>

\* The yearly aggregation and the return of calculate
calculateReturn ==
  /\ pc = "return"
  /\ pc' = "done"
  /\ \E each \in {forEach(payments)} :
     \E returned \in {resultOf(each)} :
       /\ ret' = <<returned>>
       /\ ref' = IF ref = <<>>
                  THEN <<[args |-> args, ret |-> returned, totalPaid |-> totalPaid]>>
                  ELSE ref
  /\ between' = (between \/ (ref # <<>> /\ ref[1].args # args))
  /\ UNCHANGED <<state, chartRef, frame, mathPow>>

\* handleSubmit after calculate has returned
handleSubmitResume ==
  /\ pc = "done"
  /\ state' = [state EXCEPT !.results =
                 [monthlyPayment |-> <<ret[1].monthlyPayment>>,
                  totalPaid      |-> <<ret[1].totalPaid>>,
                  totalYears     |-> <<ret[1].totalYears>>,
                  tableData      |-> <<ret[1].tableData>>]]
  /\ chartRef' = <<[data |-> ret[1].chartData]>>
  /\ pc' = "idle"
  /\ ret' = <<>>
  /\ UNCHANGED <<frame, hist, mathPow>>

(***************************************************************************)
(* Specifications                                                          *)
(***************************************************************************)
\* The page: the mount effect submits the initial form, then the user edits
\* and submits
Next ==
  \/ handleAmountChange
  \/ handleTermChange
  \/ handleInterestChange
  \/ handleExtraMonthlyPaymentChange
  \/ handleSubmit
  \/ calculateWhile
  \/ calculateFor
  \/ calculateReturn
  \/ handleSubmitResume

Spec == Init /\ [][Next]_vars

\* One call of calculate
NextCalc ==
  \/ calculateWhile
  \/ calculateFor
  \/ calculateReturn

SpecCalc == InitCalc /\ [][NextCalc]_vars

\* A call without extra payment, then a call with the same loan amount,
\* rate and term and an extra payment
InitPair == InitCalc /\ IsZero(extraPrincipal)

calculateAgain ==
  /\ pc = "done"
  /\ IsZero(extraPrincipal)
  /\ \E extra \in PairExtras :
     \E build \in MathPowBuilds :
     \E pw \in {PowArgs(interest, loanTerm)} :
     \E r \in {MathPow(build, pw.x, pw.n)} :
       /\ Serves(mathPow, pw, r)
       /\ mathPow' = Remember(mathPow, pw, r)
       /\ \E f \in {calculateEntry(build, loanAmount, interest, loanTerm, Number(extra))} :
            FrameBecomes(f)
  /\ pc' = "while"
  /\ ret' = <<>>
  /\ UNCHANGED <<state, chartRef, hist>>

NextPair ==
  \/ calculateWhile
  \/ calculateFor
  \/ calculateReturn
  \/ calculateAgain

SpecPair == InitPair /\ [][NextPair]_vars

\* One call of calculate, followed past the iteration cap
NextCap ==
  \/ calculateWhile
  \/ calculateForCap
  \/ calculateReturn

SpecCap == InitCap /\ [][NextCap]_vars

\* One call of calculate whose schedule is added up: it returns before the
\* iteration cap
SpecTotal == InitTotal /\ [][NextCap]_vars

(***************************************************************************)
(* Vocabulary of the properties                                            *)
(***************************************************************************)
\* A call of calculate is active or has just returned
InCall == pc \in {"while", "for", "return", "done"}

\* The active call's arguments are valid: loan amount > 0, annual rate > 0,
\* term selector 0..29, extra monthly payment >= 0
ValidArgs ==
  /\ InCall
  /\ FGt(loanAmount, Zero)
  /\ FGt(interest, Zero)
  /\ HasIndex(loanTerm)
  /\ FLe(Zero, extraPrincipal)

\* The selected term in years
SelectedYears == termYears[IndexOf(loanTerm) + 1]

\* All the months of the years yrs, in order
RECURSIVE Flat(_)
Flat(yrs) == IF yrs = <<>> THEN <<>> ELSE Flat(SubSeq(yrs, 1, Len(yrs) - 1)) \o yrs[Len(yrs)]

\* The months the active call has recorded so far
Recorded == Flat(payments) \o (IF pc = "for" THEN monthlyPayments ELSE <<>>)

(***************************************************************************)
(* C1                                                                      *)
(***************************************************************************)
\* C1: for every valid input, the totalYears that calculate returns is never
\* greater than the selected term in years, and equals it whenever the extra
\* monthly payment is 0.
C1_DurationIsTerm ==
  (pc = "done" /\ ValidArgs) =>
    /\ ret[1].totalYears <= SelectedYears
    /\ IsZero(extraPrincipal) => ret[1].totalYears = SelectedYears

\* The part of C1 that bounds the duration, alone: it fails too (a loan of 23
\* at 3600% over 2 years takes 25 months).
C1_DurationWithinTerm ==
  (pc = "done" /\ ValidArgs) => ret[1].totalYears <= SelectedYears

\* A valid call without extra payment has returned a duration equal to its term
C1_Witness ==
  /\ pc = "done" /\ ValidArgs /\ IsZero(extraPrincipal)
  /\ ret[1].totalYears = SelectedYears
  /\ SelectedYears = 2

(***************************************************************************)
(* C2                                                                      *)
(***************************************************************************)
\* C2: for every valid input the amortization loop terminates, because the
\* principal portion of every month (fixed payment + extra - interest) is
\* strictly positive.
C2_PrincipalPortionPositive ==
  ValidArgs => \A n \in 1..Len(Recorded) : FGt(Recorded[n].principalPayment, Zero)

\* A valid call has finished its loop after at least two years of months
\* whose principal portions were all positive
C2_Witness ==
  /\ pc = "return" /\ ValidArgs
  /\ Len(payments) >= 2
  /\ \A n \in 1..Len(Recorded) : FGt(Recorded[n].principalPayment, Zero)

(***************************************************************************)
(* C3, C4, C5                                                              *)
(***************************************************************************)
Fields(st) == <<st.loanAmount, st.interest, st.loanTerm, st.extraMonthlyPayment>>

\* A step that starts while no handler runs and edits no form field: the
\* only such step that changes anything is a submit
Submits == pc \in {"mount", "idle"} /\ Fields(state') = Fields(state)

\* The submit reports an error, does not run calculate, and leaves the
\* results and the chart as they were
Rejected ==
  /\ state'.error # <<>> /\ state'.error # <<"">>
  /\ pc' = "idle"
  /\ UNCHANGED <<frame, ret>>
  /\ state'.results = state.results
  /\ chartRef' = chartRef

\* C3: a submit whose loan amount is zero or negative is rejected: an error is
\* reported and no schedule is computed for it (calculate is not run and the
\* results are not replaced).
C3_NonPositiveAmountRejected ==
  [][(Submits /\ FLe(Number(state.loanAmount), Zero)) => Rejected]_vars

\* A submit of a loan amount of zero has been rejected
C3_Witness ==
  /\ pc = "idle"
  /\ IsZero(Number(state.loanAmount))
  /\ state.error = <<"Loan amount is invalid">>

\* C4: a submit whose annual interest rate is zero or negative is rejected: an
\* error is reported and no schedule is computed for it, so the payment
\* formula is never evaluated with a monthly rate i <= 0.
C4_NonPositiveRateRejected ==
  [][(Submits /\ FLe(FMul(Number(state.interest), Percent), Zero)) => Rejected]_vars

\* A submit of a rate of zero has been rejected
C4_Witness ==
  /\ pc = "idle"
  /\ ~Not(Number(state.loanAmount))
  /\ IsZero(Number(state.interest))
  /\ state.error = <<"Interest is invalid">>

\* C5: when the term passed to calculate is not a supported value (a selector
\* outside 0..29), the computation fails and produces no result, instead of
\* returning a schedule.
C5_UnsupportedTermNoResult ==
  (InCall /\ ~HasIndex(loanTerm)) => (pc # "done" /\ ret = <<>>)

(***************************************************************************)
(* C6                                                                      *)
(***************************************************************************)
\* The form holds an input that fails validation: loan amount, interest or
\* extra monthly payment is not a number, or the extra payment is negative
FailsValidation ==
  \/ IsNaN(Number(state.loanAmount))
  \/ IsNaN(FMul(Number(state.interest), Percent))
  \/ IsNaN(Number(state.extraMonthlyPayment))
  \/ FLt(Number(state.extraMonthlyPayment), Zero)

\* C6: whenever handleSubmit finds an input that fails validation, it sets a
\* non-empty error message, does not call calculate, and leaves every field of
\* results and the chart data exactly as they were before the submit.
C6_FailedValidationFrame ==
  [][(Submits /\ FailsValidation) => Rejected]_vars

\* A negative extra payment has been refused after results had been shown
C6_Witness ==
  /\ pc = "idle"
  /\ FLt(Number(state.extraMonthlyPayment), Zero)
  /\ state.error = <<"Extra monthly payment is invalid">>
  /\ state.results.tableData # <<>>
  /\ chartRef # <<>>

(***************************************************************************)
(* C7                                                                      *)
(***************************************************************************)
\* C7: if the fixed payment plus the extra payment does not exceed the monthly
\* interest, so that the principal is never reduced, the computation stops at
\* the iteration cap (100 years of 12 months) and fails, rather than iterating
\* without bound.
C7_StopsAtCap ==
  (ValidArgs /\ ~FLt(principal, loanAmount)) => Months <= DefensiveCap

\* A valid call has run the cap's number of months without reducing its
\* principal, and is still in its loop
C7_Witness ==
  /\ pc \in {"while", "for"} /\ ValidArgs
  /\ ~FLt(principal, loanAmount)
  /\ Months = DefensiveCap

(***************************************************************************)
(* C8                                                                      *)
(***************************************************************************)
\* The balance before month n of the active call
Before(n) == IF n = 1 THEN loanAmount ELSE Recorded[n - 1].principal

\* C8: for every valid input, the remaining principal recorded month by month
\* is never negative and never increases from one month to the next, and the
\* ending balance of the last year of a returned schedule is 0.
C8_BalanceNonIncreasing ==
  ValidArgs =>
    /\ \A n \in 1..Len(Recorded) :
         /\ FLe(Zero, Recorded[n].principal)
         /\ FLe(Recorded[n].principal, Before(n))
    /\ (pc = "done" /\ payments # <<>>) =>
         IsZero(lastPrincipal(payments[Len(payments)]))

\* A valid call has returned a schedule of two years whose balances never
\* increased and ended at 0
C8_Witness ==
  /\ pc = "done" /\ ValidArgs
  /\ Len(payments) = 2
  /\ \A n \in 1..Len(Recorded) : FLe(Recorded[n].principal, Before(n))
  /\ IsZero(lastPrincipal(payments[2]))
  /\ ret[1].tableData[2].principalBalance = <<"A", "$", "0">>

(***************************************************************************)
(* C9                                                                      *)
(***************************************************************************)
\* Exact arithmetic on finite doubles: [s, m, e] is (-1)^s * m * 2^e, here
\* with a significand of any length
ExactAligned(x, y, mx, my, e) ==
  IF x.s = y.s THEN [s |-> x.s, m |-> BAdd(mx, my), e |-> e]
  ELSE IF BCmp(mx, my) >= 0 THEN [s |-> x.s, m |-> BSub(mx, my), e |-> e]
  ELSE [s |-> y.s, m |-> BSub(my, mx), e |-> e]

ExactAt(x, y, e) == ExactAligned(x, y, BShl(x.m, x.e - e), BShl(y.m, y.e - e), e)

\* x + y, x - y and |x|, without rounding
ExactAdd(x, y) == ExactAt(x, y, Min(x.e, y.e))
ExactSub(x, y) == ExactAdd(x, [y EXCEPT !.s = 1 - y.s])
ExactAbs(x) == [x EXCEPT !.s = 0]

\* x <= y
ExactSign(d) == d.m = <<>> \/ d.s = 1
ExactLe(x, y) == ExactSign(ExactSub(x, y))

\* The sum of the interest portions of the recorded months lo..hi
RECURSIVE SumInterestOver(_, _)
SumInterestOver(lo, hi) ==
  IF lo > hi THEN [s |-> 0, m |-> <<>>, e |-> 0]
  ELSE IF lo = hi THEN Recorded[lo].interestPayment
  ELSE ExactAdd(SumInterestOver(lo, (lo + hi) \div 2),
                SumInterestOver((lo + hi) \div 2 + 1, hi))

\* The sum of the interest portions of the first n recorded months
SumInterest(n) == SumInterestOver(1, n)

\* |totalPaid - (loanAmount + the interest portions of all months)|
TotalPaidError ==
  ExactAbs(ExactSub(totalPaid, ExactAdd(loanAmount, SumInterest(Len(Recorded)))))

\* A valid call has finished its schedule
Returned == pc \in {"return", "done"} /\ ValidArgs

\* The total is a finite number: neither Infinity nor NaN
Finished == Returned /\ totalPaid.k = "num"

\* n * x / 2^52, without rounding
RoundingOf(n, x) == [s |-> x.s, m |-> BMul(x.m, BFromInt(n)), e |-> x.e - (MantBits - 1)]

\* What the rounded additions and subtractions of the schedule can add to
\* the difference: each month rounds interestPayment + principalPayment, the
\* new totalPaid and the new principal, each by at most half a unit in the
\* last place, that is by at most 2^-53 of a value that is at most
\* totalPaid, totalPaid and loanAmount
RoundingBound == RoundingOf(Len(Recorded), ExactAdd(loanAmount, totalPaid))

\* A valid call has returned a totalPaid that is not a finite number
C9_NotFinite == Returned /\ totalPaid.k # "num"

(***************************************************************************)
(* C10                                                                     *)
(***************************************************************************)
\* ref holds the arguments and the result of the first call that returned;
\* between says that a call with other arguments has returned since.

\* C10: calculate is a pure function of its four arguments: a call with the
\* arguments of an earlier call returns the result of the earlier call,
\* whatever calls with other arguments were made in between.
C10_SameArgsSameResult ==
  (pc = "done" /\ ref # <<>> /\ ref[1].args = args) => ret[1] = ref[1].ret

\* A call has returned the result of the first call, whose arguments it
\* repeats, after a call with other arguments
C10_Witness ==
  /\ pc = "done" /\ between
  /\ ref[1].args = args
  /\ ret[1] = ref[1].ret
  /\ ret[1].totalYears = 1

(***************************************************************************)
(* C11                                                                     *)
(***************************************************************************)
\* The principal portion of recorded month n that the fixed payment gives
Due(n) == FSub(FAdd(monthlyPayment, extraPrincipal), Recorded[n].interestPayment)

\* How Math.pow may round for the arguments of the active call, given what
\* it has returned so far
PowServes(build, a) == Serves(mathPow, a, MathPow(build, a.x, a.n))

\* The amortization payment of the loan amount, rate and term of the active
\* call: one value once Math.pow has returned for them
FixedPayments ==
  {calcMonthlyPayment(build, loanAmount, interest, loanTerm) :
     build \in {b \in MathPowBuilds : PowServes(b, PowArgs(interest, loanTerm))}}

\* C11: the fixed monthly payment depends only on loan amount, rate and term:
\* throughout a call it is the amortization payment of these three, whatever
\* the extra monthly payment is, every month's principal portion is computed
\* from it (or is the whole balance), and it is the payment returned.
C11_PaymentFixed ==
  InCall =>
    /\ monthlyPayment \in FixedPayments
    /\ \A n \in 1..Len(Recorded) :
         Recorded[n].principalPayment \in {Due(n), Before(n)}
    /\ pc = "done" => ret[1].monthlyPayment = CurrencyFormat(MathRound(monthlyPayment))

\* A call with an extra monthly payment has returned after more than a year
C11_Witness ==
  /\ pc = "done" /\ ValidArgs
  /\ FGt(extraPrincipal, Zero)
  /\ Len(Recorded) > 12
  /\ monthlyPayment \in FixedPayments
  /\ ret[1].monthlyPayment = CurrencyFormat(MathRound(monthlyPayment))

(***************************************************************************)
(* C12                                                                     *)
(***************************************************************************)
\* A valid call with an extra payment has returned, after the call with the
\* same loan amount, rate and term and no extra payment, which ref holds
AfterBaseline ==
  /\ pc = "done" /\ ValidArgs
  /\ FGt(extraPrincipal, Zero)
  /\ ref # <<>>
  /\ ref[1].args = <<loanAmount, interest, loanTerm, Zero>>

\* C12: for any valid loan amount, rate and term, a call with an extra monthly
\* payment > 0 returns a totalYears no greater than, and accumulates a
\* totalPaid strictly lower than, the call with the same loan amount, rate
\* and term and an extra monthly payment of 0.
C12_ExtraPaysLessSooner ==
  AfterBaseline =>
    /\ ret[1].totalYears <= ref[1].ret.totalYears
    /\ FLt(totalPaid, ref[1].totalPaid)

\* A loan of 500000 has been paid with an extra payment in no more years and
\* for less in total than without
C12_Witness ==
  /\ AfterBaseline
  /\ loanAmount = Number(<<"5", "0", "0", "0", "0", "0">>)
  /\ ret[1].totalYears <= ref[1].ret.totalYears
  /\ FLt(totalPaid, ref[1].totalPaid)

(***************************************************************************)
(* C13                                                                     *)
(***************************************************************************)
\* C13: in every result of calculate, totalYears is the number of table
\* rows, the number of chart labels and the length of each of the two chart
\* series, and the chart labels are 1, 2, ..., totalYears in order.
C13_ResultShape ==
  pc = "done" =>
    /\ Len(ret[1].tableData) = ret[1].totalYears
    /\ Len(ret[1].chartData.labels) = ret[1].totalYears
    /\ Len(ret[1].chartData.datasets) = 2
    /\ Len(ret[1].chartData.datasets[1]) = ret[1].totalYears
    /\ Len(ret[1].chartData.datasets[2]) = ret[1].totalYears
    /\ \A index \in 1..ret[1].totalYears : ret[1].chartData.labels[index] = index

\* A result of three years has been returned
C13_Witness ==
  /\ pc = "done"
  /\ ret[1].totalYears = 3
  /\ Len(ret[1].tableData) = 3
  /\ ret[1].chartData.labels = <<1, 2, 3>>

(***************************************************************************)
(* C14                                                                     *)
(***************************************************************************)
\* C14: in the schedule built by calculate, every yearly group except the
\* last contains exactly 12 monthly records, the last group contains between
\* 1 and 12 records, and no empty group is ever added.
C14_YearsOfTwelve ==
  InCall =>
    \A y \in 1..Len(payments) :
      /\ Len(payments[y]) \in 1..12
      /\ y < Len(payments) => Len(payments[y]) = 12

\* A schedule of two full years and a last year of one month is complete
C14_Witness ==
  /\ pc = "return"
  /\ Len(payments) = 3
  /\ Len(payments[1]) = 12 /\ Len(payments[2]) = 12
  /\ Len(payments[3]) = 1

(***************************************************************************)
(* C15                                                                     *)
(***************************************************************************)
\* C15: in the month where the remaining principal is less than or equal to
\* the computed principal portion, the principal portion is exactly the
\* remaining principal and the balance becomes 0; the month in which the
\* balance reaches 0 is the last record of the whole schedule.
C15_ClampedLastMonth ==
  InCall =>
    \A n \in 1..Len(Recorded) :
      /\ FLe(Before(n), Due(n)) =>
           /\ Recorded[n].principalPayment = Before(n)
           /\ IsZero(Recorded[n].principal)
      /\ IsZero(Recorded[n].principal) => n = Len(Recorded)

\* A schedule of more than a year has ended with a clamped month
C15_Witness ==
  /\ pc = "return"
  /\ Len(Recorded) > 12
  /\ FLe(Before(Len(Recorded)), Due(Len(Recorded)))
  /\ FLt(Before(Len(Recorded)), Due(Len(Recorded)))
  /\ Recorded[Len(Recorded)].principalPayment = Before(Len(Recorded))
  /\ IsZero(principal)

(***************************************************************************)
(* C16                                                                     *)
(***************************************************************************)
\* The number of monthly records of year y, as a double
MonthsOf(y) == FromInt(Len(payments[y]))

\* C16: for each year of the schedule, the two chart values are the year's
\* summed interest and summed principal portions divided by the number of
\* monthly records present in that year, and the year's ending balance is
\* the remaining principal of that year's last monthly record.
C16_YearlyAverages ==
  pc = "done" =>
    \A y \in 1..Len(payments) :
      /\ ret[1].chartData.datasets[1][y] =
           FDiv(yearInterest(payments[y], Len(payments[y])), MonthsOf(y))
      /\ ret[1].chartData.datasets[2][y] =
           FDiv(yearPrincipal(payments[y], Len(payments[y])), MonthsOf(y))
      /\ ret[1].tableData[y].principalBalance =
           CurrencyFormat(MathRound(payments[y][Len(payments[y])].principal))

\* A result has been returned whose last year has a single month: its chart
\* values are that month's interest and principal portions
C16_Witness ==
  /\ pc = "done"
  /\ Len(payments) = 3
  /\ Len(payments[3]) = 1
  /\ ret[1].chartData.datasets[1][3] = payments[3][1].interestPayment
  /\ ret[1].chartData.datasets[2][3] = payments[3][1].principalPayment
  /\ ret[1].tableData[1].principalBalance # ret[1].tableData[3].principalBalance

(***************************************************************************)
(* C17                                                                     *)
(***************************************************************************)
\* The message of the first input that fails validation, in the order loan
\* amount, interest, extra monthly payment; the empty string if none fails
ExpectedError ==
  IF IsNaN(Number(state.loanAmount)) \/ IsZero(Number(state.loanAmount))
    THEN "Loan amount is invalid"
  ELSE IF \/ IsNaN(FMul(Number(state.interest), Percent))
          \/ IsZero(FMul(Number(state.interest), Percent))
    THEN "Interest is invalid"
  ELSE IF \/ IsNaN(Number(state.extraMonthlyPayment))
          \/ FLt(Number(state.extraMonthlyPayment), Zero)
    THEN "Extra monthly payment is invalid"
  ELSE ""

\* C17: the error field is non-empty if and only if the most recent submit
\* failed validation: every submit sets it to the message of the first
\* failing input in the order loan amount, interest, extra monthly payment,
\* or to the empty string, before any result is written, if none fails; no
\* other step changes it.
C17_ErrorOfLastSubmit ==
  [][IF Submits
       THEN /\ state'.error = <<ExpectedError>>
            /\ ExpectedError = "" => (state'.results = state.results /\ pc' = "while")
       ELSE state'.error = state.error]_vars

\* A submit with an invalid loan amount and an invalid interest has reported
\* the loan amount, after an earlier submit had shown results
C17_Witness ==
  /\ pc = "idle"
  /\ IsNaN(Number(state.loanAmount))
  /\ IsNaN(Number(state.interest))
  /\ state.error = <<"Loan amount is invalid">>
  /\ state.results.totalPaid # <<>>

(***************************************************************************)
(* C18                                                                     *)
(***************************************************************************)
\* A step that edits the form
Edits == pc = "idle" /\ Fields(state') # Fields(state)

\* The step changes no other part of state than the field named
OnlyField(field) == state' = [state EXCEPT ![field] = state'[field]]

\* C18: each input change handler modifies only its own input field of the
\* state; results and error (and the chart) stay unchanged under input
\* changes, and a submit that passes validation calls calculate with the
\* values the input fields hold at that moment.
C18_HandlersFrame ==
  [][/\ handleAmountChange => OnlyField("loanAmount")
     /\ handleTermChange => OnlyField("loanTerm")
     /\ handleInterestChange => OnlyField("interest")
     /\ handleExtraMonthlyPaymentChange => OnlyField("extraMonthlyPayment")
     /\ Edits => /\ state'.error = state.error
                 /\ state'.results = state.results
                 /\ UNCHANGED <<chartRef, pc, frame, ret>>
     /\ (Submits /\ ExpectedError = "") =>
          <<loanAmount', interest', loanTerm', extraPrincipal'>> =
            <<Number(state.loanAmount), FMul(Number(state.interest), Percent),
              state.loanTerm, Number(state.extraMonthlyPayment)>>]_vars

\* Every input has been edited since the last submit, which passed: the
\* loan amount now is no number, while the results and the cleared error of
\* that submit are still shown
C18_Witness ==
  /\ pc = "idle"
  /\ \A n \in 1..4 : Fields(state)[n] # Fields(initialState)[n]
  /\ IsNaN(Number(state.loanAmount))
  /\ state.error = <<"">>
  /\ state.results.totalYears = <<1>>

====
